---- MODULE Spec2Model ----
(***************************************************************************)
(* frc::UnscentedKalmanFilter<States, Inputs, Outputs>                     *)
(* (wpimath/src/main/native/include/frc/estimator/UnscentedKalmanFilter.h) *)
(*                                                                         *)
(* The filter object is modelled as a state machine: the variables are its *)
(* data members, Init is the state the constructor leaves, and there is    *)
(* one action per public mutating member function.                         *)
(*                                                                         *)
(* A C++ double is modelled as an exact rational number <<n, d>> in lowest *)
(* terms with d > 0, so every statement below is about the arithmetic the  *)
(* code performs, without rounding.  A vector is a sequence of rationals, a*)
(* matrix is a sequence of rows, and a sigma-point matrix (one point per   *)
(* column in the code) is the sequence of its columns.                     *)
(***************************************************************************)
EXTENDS Integers, Sequences, FiniteSets, TLC

VARIABLES
    m_f,        \* the dynamics function f(x, u), by name
    m_h,        \* the measurement function h(x, u), by name
    m_xHat,     \* state estimate, States x 1
    m_P,        \* error covariance, States x States
    m_contQ,    \* continuous process noise covariance
    m_contR,    \* continuous measurement noise covariance
    m_discR,    \* discrete measurement noise covariance
    m_sigmasF,  \* propagated sigma points, States x (2 States + 1)
    ctor,       \* the constructor's arguments (history)
    call,       \* the last member function called and its arguments
    prev,       \* the name of the member function called before that one
    nCalls,     \* number of member functions called since construction
    predictDt,  \* dt of the most recent Predict, or the constructor's dt
    predicted,  \* Predict has been called since construction
    corrected   \* Correct has been called since construction

vars == <<m_f, m_h, m_xHat, m_P, m_contQ, m_contR, m_discR, m_sigmasF,
          ctor, call, prev, nCalls, predictDt, predicted, corrected>>

\* Number of member-function calls explored after construction.
MaxCalls == 3

\* The largest numerator or denominator a member may hold when a member
\* function is called; it keeps the arithmetic within the integers of TLC.
MaxMagnitude == 20

-----------------------------------------------------------------------------
(* double, as exact rationals *)

Abs(a) == IF a < 0 THEN -a ELSE a

RECURSIVE GCD(_, _)
GCD(a, b) == IF b = 0 THEN a ELSE GCD(b, a % b)

\* n/d in lowest terms with a positive denominator
Rat(n, d) ==
    LET g == GCD(Abs(n), Abs(d))
        s == IF d < 0 THEN -1 ELSE 1
    IN  <<s * (n \div g), s * (d \div g)>>

Zero == Rat(0, 1)
One == Rat(1, 1)
Two == Rat(2, 1)
Half == Rat(1, 2)

RAdd(a, b) ==
    IF a[2] = b[2] THEN Rat(a[1] + b[1], a[2])
    ELSE Rat(a[1] * b[2] + b[1] * a[2], a[2] * b[2])

RNeg(a) == <<-a[1], a[2]>>

RSub(a, b) == RAdd(a, RNeg(b))

RMul(a, b) ==
    IF a[1] = 0 \/ b[1] = 0 THEN <<0, 1>> ELSE Rat(a[1] * b[1], a[2] * b[2])

\* a / b, b # 0
RDiv(a, b) == RMul(a, Rat(b[2], b[1]))

RLeq(a, b) == a[1] * b[2] <= b[1] * a[2]

RLess(a, b) == a[1] * b[2] < b[1] * a[2]

RAbs(a) == <<Abs(a[1]), a[2]>>

\* the largest r in lo..hi with r * r <= k, by bisection
RECURSIVE SqrtSearch(_, _, _)
SqrtSearch(k, lo, hi) ==
    IF lo >= hi THEN lo
    ELSE LET mid == (lo + hi + 1) \div 2
         IN  IF mid * mid <= k THEN SqrtSearch(k, mid, hi)
             ELSE SqrtSearch(k, lo, mid - 1)

\* the integer square root of k >= 0 (46340 is the largest root of an int)
ISqrt(k) == SqrtSearch(k, 0, IF k < 46340 THEN k ELSE 46340)

IsPerfectSquare(k) == ISqrt(k) * ISqrt(k) = k

\* std::sqrt on the non-negative rationals whose root is rational
HasExactSqrt(a) == a[1] >= 0 /\ IsPerfectSquare(a[1]) /\ IsPerfectSquare(a[2])

RSqrt(a) == <<ISqrt(a[1]), ISqrt(a[2])>>

-----------------------------------------------------------------------------
(* Eigen::Matrix<double, R, C> *)

\* a sequence given as a function, as the tuple of its evaluated entries
Tuple(s) == s \o <<>>

\* s[1] + ... + s[k]
RECURSIVE RSumTo(_, _)
RSumTo(s, k) == IF k = 0 THEN Zero ELSE RAdd(RSumTo(s, k - 1), s[k])

RSum(s) == RSumTo(s, Len(s))

Dot(v, w) == RSum(Tuple([i \in 1..Len(v) |-> RMul(v[i], w[i])]))

ZeroVec(n) == Tuple([i \in 1..n |-> Zero])

ZeroMat(r, c) == Tuple([i \in 1..r |-> Tuple([j \in 1..c |-> Zero])])

Identity(n) ==
    Tuple([i \in 1..n |->
        Tuple([j \in 1..n |-> IF i = j THEN One ELSE Zero])])

VAdd(v, w) == Tuple([i \in 1..Len(v) |-> RAdd(v[i], w[i])])

VSub(v, w) == Tuple([i \in 1..Len(v) |-> RSub(v[i], w[i])])

VScale(k, v) == Tuple([i \in 1..Len(v) |-> RMul(k, v[i])])

NCols(M) == IF M = <<>> THEN 0 ELSE Len(M[1])

Col(M, j) == Tuple([i \in 1..Len(M) |-> M[i][j]])

Transpose(M) == Tuple([j \in 1..NCols(M) |-> Col(M, j)])

MAdd(A, B) == Tuple([i \in 1..Len(A) |-> VAdd(A[i], B[i])])

MSub(A, B) == Tuple([i \in 1..Len(A) |-> VSub(A[i], B[i])])

MScale(k, A) == Tuple([i \in 1..Len(A) |-> VScale(k, A[i])])

MMul(A, B) ==
    Tuple([i \in 1..Len(A) |->
        Tuple([j \in 1..NCols(B) |-> Dot(A[i], Col(B, j))])])

MVec(A, v) == Tuple([i \in 1..Len(A) |-> Dot(A[i], v)])

\* v * w^T
Outer(v, w) ==
    Tuple([i \in 1..Len(v) |->
        Tuple([j \in 1..Len(w) |-> RMul(v[i], w[j])])])

\* the sum of the r x c matrices s[1], ..., s[k]
RECURSIVE MSumTo(_, _, _, _)
MSumTo(s, k, r, c) ==
    IF k = 0 THEN ZeroMat(r, c) ELSE MAdd(MSumTo(s, k - 1, r, c), s[k])

MSum(s, r, c) == MSumTo(s, Len(s), r, c)

\* the sum of the n-vectors s[1], ..., s[k]
RECURSIVE VSumTo(_, _, _)
VSumTo(s, k, n) ==
    IF k = 0 THEN ZeroVec(n) ELSE VAdd(VSumTo(s, k - 1, n), s[k])

VSum(s, n) == VSumTo(s, Len(s), n)

Trace(M) == RSum(Tuple([i \in 1..Len(M) |-> M[i][i]]))

IsSymmetric(M) == M = Transpose(M)

-----------------------------------------------------------------------------
(* The caller's model functions.  The filter stores them as std::function  *)
(* values; the model names the ones a caller passes.                       *)

\* Dynamics f(x, u), the derivative of the state:
\*   "zero"   f(x, u) = 0
\*   "input"  f(x, u) = u (every component), independent of the state
\*   "dblint" f(x, u) = [x2, u], position and velocity (States = 2)
f(name, x, u) ==
    CASE name = "zero" -> ZeroVec(Len(x))
      [] name = "input" -> Tuple([i \in 1..Len(x) |-> u[1]])
      [] name = "dblint" -> <<x[2], u[1]>>

\* Measurement functions h(x, u):
\*   "first"  h(x, u) = [x1]            (Rows = 1)
\*   "square" h(x, u) = [x1 * x1]       (Rows = 1, not affine)
\*   "full"   h(x, u) = x               (Rows = States)
h(name, x, u) ==
    CASE name = "first" -> <<x[1]>>
      [] name = "square" -> <<RMul(x[1], x[1])>>
      [] name = "full" -> x

\* Rows of the measurement h returns for a States-dimensional state
RowsOf(name, n) == IF name = "full" THEN n ELSE 1

IsAffine(name) == name \in {"first", "full"}

\* f does not read x
IsStateIndependent(name) == name \in {"zero", "input"}

-----------------------------------------------------------------------------
(* frc::MakeCovMatrix, frc::DiscretizeR, frc::DiscretizeAQTaylor,          *)
(* frc::NumericalJacobianX, frc::RungeKutta                                *)

\* diagonal matrix of the squared standard deviations
MakeCovMatrix(stdDevs) ==
    Tuple([i \in 1..Len(stdDevs) |->
        Tuple([j \in 1..Len(stdDevs) |->
            IF i = j THEN RMul(stdDevs[i], stdDevs[i]) ELSE Zero])])

\* R / dt
DiscretizeR(R, dt) == MScale(RDiv(One, dt), R)

\* finite-difference step of the numerical Jacobian
kEpsilon == Rat(1, 100000)

\* column i of the result is (f(x + eps e_i, u) - f(x - eps e_i, u)) / (2 eps)
NumericalJacobianX(fn, x, u) ==
    LET n == Len(x)
        bump(i, e) ==
            Tuple([k \in 1..n |-> IF k = i THEN RAdd(x[k], e) ELSE x[k]])
        dF(i) == VScale(RDiv(One, RMul(Two, kEpsilon)),
                        VSub(f(fn, bump(i, kEpsilon), u),
                             f(fn, bump(i, RNeg(kEpsilon)), u)))
    IN  Transpose(Tuple([i \in 1..n |-> dF(i)]))

\* the matrix exponential, as its power series I + M + M^2/2! + ... through
\* the term of order Len(M); exact when M is nilpotent, which the Jacobian
\* of each dynamics function above is.
RECURSIVE ExpSeries(_, _, _)
ExpSeries(M, term, k) ==
    IF k > Len(M) THEN ZeroMat(Len(M), Len(M))
    ELSE MAdd(term, ExpSeries(M, MScale(Rat(1, k + 1), MMul(term, M)), k + 1))

MatrixExp(M) == ExpSeries(M, Identity(Len(M)), 0)

\* the loop of DiscretizeAQTaylor, for i = 2 .. 5:
\*   lastTerm = -contA * lastTerm + Q * Atn;  lastCoeff *= dt / i;
\*   phi12 += lastTerm * lastCoeff;           Atn *= contA^T
RECURSIVE TaylorPhi12(_, _, _, _, _, _, _, _)
TaylorPhi12(contA, Q, dt, i, lastTerm, lastCoeff, Atn, phi12) ==
    IF i >= 6 THEN phi12
    ELSE LET term == MAdd(MMul(MScale(RNeg(One), contA), lastTerm),
                          MMul(Q, Atn))
             coeff == RMul(lastCoeff, RDiv(dt, Rat(i, 1)))
         IN  TaylorPhi12(contA, Q, dt, i + 1, term, coeff,
                         MMul(Atn, Transpose(contA)),
                         MAdd(phi12, MScale(coeff, term)))

\* the discrete process noise discQ of DiscretizeAQTaylor(contA, contQ, dt)
DiscretizeAQTaylor(contA, contQ, dt) ==
    LET Q == MScale(Half, MAdd(contQ, Transpose(contQ)))
        phi12 == TaylorPhi12(contA, Q, dt, 2, Q, dt, Transpose(contA),
                             MScale(dt, Q))
        discA == MatrixExp(MScale(dt, contA))
        Qd == MMul(discA, phi12)
    IN  MScale(Half, MAdd(Qd, Transpose(Qd)))

\* fourth-order Runge-Kutta step of dx/dt = f(x, u) over dt
RungeKutta(fn, x, u, dt) ==
    LET halfDt == RMul(Half, dt)
        k1 == f(fn, x, u)
        k2 == f(fn, VAdd(x, VScale(halfDt, k1)), u)
        k3 == f(fn, VAdd(x, VScale(halfDt, k2)), u)
        k4 == f(fn, VAdd(x, VScale(dt, k3)), u)
    IN  VAdd(x, VScale(RDiv(dt, Rat(6, 1)),
                       VAdd(VAdd(k1, VScale(Two, k2)),
                            VAdd(VScale(Two, k3), k4))))

-----------------------------------------------------------------------------
(* Eigen::LLT and Eigen::LDLT, as the filter uses them *)

\* the entries of row i left of column k
RowHead(M, i, k) == Tuple([j \in 1..k - 1 |-> M[i][j]])

\* the pivot of step k: mat(k,k) - squaredNorm(mat(k, 0..k-1))
LltPivot(mat, k) ==
    RSub(mat[k][k], Dot(RowHead(mat, k, k), RowHead(mat, k, k)))

\* one column of llt_inplace::unblocked: mat(k,k) becomes the square root x
\* of the pivot and the entries below it (mat(i,k) - mat(i,0..k-1) .
\* mat(k,0..k-1)) / x
llt_column(mat, k) ==
    LET x == RSqrt(LltPivot(mat, k))
    IN  Tuple([i \in 1..Len(mat) |->
            Tuple([j \in 1..Len(mat) |->
                IF i = k /\ j = k THEN x
                ELSE IF j = k /\ i > k
                     THEN RDiv(RSub(mat[i][k],
                                    Dot(RowHead(mat, i, k), RowHead(mat, k, k))), x)
                ELSE mat[i][j]])])

\* llt_inplace::unblocked from column k on: stops, leaving the rest of the
\* matrix as it is, at the first pivot that is not positive
RECURSIVE llt_unblocked(_, _)
llt_unblocked(mat, k) ==
    IF k > Len(mat) \/ RLeq(LltPivot(mat, k), Zero) THEN mat
    ELSE llt_unblocked(llt_column(mat, k), k + 1)

\* every square root llt_unblocked takes is of a rational with a rational root
RECURSIVE LltExact(_, _)
LltExact(mat, k) ==
    IF k > Len(mat) \/ RLeq(LltPivot(mat, k), Zero) THEN TRUE
    ELSE HasExactSqrt(LltPivot(mat, k)) /\ LltExact(llt_column(mat, k), k + 1)

\* llt_unblocked meets no pivot that is not positive (LLT::info() is
\* Success), every root it takes being rational
RECURSIVE LltSuccess(_, _)
LltSuccess(mat, k) ==
    IF k > Len(mat) THEN TRUE
    ELSE IF RLeq(LltPivot(mat, k), Zero) THEN FALSE
    ELSE /\ HasExactSqrt(LltPivot(mat, k))
         /\ LltSuccess(llt_column(mat, k), k + 1)

\* M.llt().matrixL(): the lower triangle of the factored matrix
LltMatrixL(M) ==
    LET L == llt_unblocked(M, 1)
    IN  Tuple([i \in 1..Len(M) |->
            Tuple([j \in 1..Len(M) |-> IF j <= i THEN L[i][j] ELSE Zero])])

\* A.ldlt().solve(B) for A of size 1 or 2: LDLT reads the lower triangle of
\* A, pivots on the largest diagonal entry, and solve() divides by the
\* non-zero entries of D and zeroes the rows of the others.
LdltSolve(A, B) ==
    IF Len(A) = 1
    THEN IF A[1][1] = Zero THEN ZeroMat(1, NCols(B))
         ELSE <<VScale(RDiv(One, A[1][1]), B[1])>>
    ELSE LET swap == RLess(RAbs(A[1][1]), RAbs(A[2][2]))
             d1 == IF swap THEN A[2][2] ELSE A[1][1]
             d2raw == IF swap THEN A[1][1] ELSE A[2][2]
             b == A[2][1]
         IN  IF d1 = Zero THEN ZeroMat(2, NCols(B))
             ELSE LET l == RDiv(b, d1)
                      d2 == RSub(d2raw, RMul(l, RMul(d1, l)))
                      p1 == IF swap THEN B[2] ELSE B[1]
                      p2 == IF swap THEN B[1] ELSE B[2]
                      y2 == VSub(p2, VScale(l, p1))
                      z1 == VScale(RDiv(One, d1), p1)
                      z2 == IF d2 = Zero THEN ZeroVec(NCols(B))
                            ELSE VScale(RDiv(One, d2), y2)
                      w1 == VSub(z1, VScale(l, z2))
                  IN  IF swap THEN <<z2, w1>> ELSE <<w1, z2>>

-----------------------------------------------------------------------------
(* frc::MerweScaledSigmaPoints<States> m_pts and frc::UnscentedTransform   *)

\* The spread parameters of m_pts.  The filter default-constructs m_pts
\* (alpha = 1e-3, beta = 2, kappa = 3 - States); the model takes alpha = 1/2
\* and kappa = 4 - States, for which lambda + States = 1 and the weights and
\* the square roots below stay rational numbers of small size.
Alpha == Rat(1, 2)
Beta == Rat(2, 1)
Kappa(n) == 4 - n

\* lambda = alpha^2 (States + kappa) - States
Lambda(n) == RSub(RMul(RMul(Alpha, Alpha), Rat(n + Kappa(n), 1)), Rat(n, 1))

NumSigmas(n) == 2 * n + 1

\* mean weights; i counts from 0 as in the code
Wm(i, n) ==
    IF i = 0 THEN RDiv(Lambda(n), RAdd(Rat(n, 1), Lambda(n)))
    ELSE RDiv(Half, RAdd(Rat(n, 1), Lambda(n)))

\* covariance weights
Wc(i, n) ==
    IF i = 0 THEN RAdd(RDiv(Lambda(n), RAdd(Rat(n, 1), Lambda(n))),
                       RAdd(RSub(One, RMul(Alpha, Alpha)), Beta))
    ELSE RDiv(Half, RAdd(Rat(n, 1), Lambda(n)))

\* the matrix SigmaPoints factors: (lambda + States) * P
Spread(P) == MScale(RAdd(Lambda(Len(P)), Rat(Len(P), 1)), P)

\* the factorisation of SigmaPoints(x, P) stays within the rationals
SigmaPointsExact(P) == LltExact(Spread(P), 1)

\* columns x, x + U_k (k = 1..States), x - U_k (k = 1..States), where
\* U = ((lambda + States) * P).llt().matrixL()
SigmaPoints(x, P) ==
    LET n == Len(x)
        U == LltMatrixL(Spread(P))
    IN  Tuple([c \in 1..NumSigmas(n) |-> IF c = 1 THEN x
            ELSE IF c <= n + 1 THEN VAdd(x, Col(U, c - 1))
            ELSE VSub(x, Col(U, c - 1 - n))])

\* mean = sigmas * Wm, cov = (sigmas - mean) diag(Wc) (sigmas - mean)^T
UnscentedTransform(sigmas, n) ==
    LET r == Len(sigmas[1])
        mean == VSum(Tuple([c \in 1..Len(sigmas) |->
                               VScale(Wm(c - 1, n), sigmas[c])]), r)
        cov == MSum(Tuple([c \in 1..Len(sigmas) |-> MScale(Wc(c - 1, n),
                               Outer(VSub(sigmas[c], mean), VSub(sigmas[c], mean)))]), r, r)
    IN  [mean |-> mean, cov |-> cov]

-----------------------------------------------------------------------------
(* UnscentedKalmanFilter: the member functions, as functions of the object *)
(* s = [f, h, xHat, P, contQ, contR, discR, sigmasF]                       *)

\* the template parameter States of the object
StatesOf(s) == Len(s.xHat)

\* Reset() without m_P.setZero()
ResetKeepingP(s) ==
    [s EXCEPT !.xHat = ZeroVec(StatesOf(s)),
              !.sigmasF = ZeroMat(NumSigmas(StatesOf(s)), StatesOf(s))]

\* Reset() that also restores m_discR to the continuous m_contR
ResetRestoringR(s) ==
    [s EXCEPT !.xHat = ZeroVec(StatesOf(s)),
              !.P = ZeroMat(StatesOf(s), StatesOf(s)),
              !.sigmasF = ZeroMat(NumSigmas(StatesOf(s)), StatesOf(s)),
              !.discR = s.contR]

\* m_xHat.setZero(); m_P.setZero(); m_sigmasF.setZero();
Reset(s) ==
    LET n == StatesOf(s)
    IN  [s EXCEPT !.xHat = ZeroVec(n),
                  !.P = ZeroMat(n, n),
                  !.sigmasF = ZeroMat(NumSigmas(n), n)]

\* the constructor: m_f(f), m_h(h), m_contQ, m_contR, m_discR, then Reset().
\* The members Reset() assigns hold no value before it; it reads none of them.
Construct(fn, hn, stateStdDevs, measurementStdDevs, dt) ==
    LET n == Len(stateStdDevs)
        contR == MakeCovMatrix(measurementStdDevs)
    IN  Reset([f |-> fn, h |-> hn,
               xHat |-> ZeroVec(n), P |-> ZeroMat(n, n),
               contQ |-> MakeCovMatrix(stateStdDevs),
               contR |-> contR,
               discR |-> DiscretizeR(contR, dt),
               sigmasF |-> ZeroMat(NumSigmas(n), n)])

SetP(s, P) == [s EXCEPT !.P = P]

\* SetXhat(xHat) that also moves the central propagated sigma point
SetXhatRecentring(s, xHat) == [s EXCEPT !.xHat = xHat, !.sigmasF[1] = xHat]

SetXhat(s, xHat) == [s EXCEPT !.xHat = xHat]

\* SetXhat(int i, double value); i counts from 0
SetXhatAt(s, i, value) == [s EXCEPT !.xHat[i + 1] = value]

(* Predict(u, dt), in the order of its statements.  Each step is an       *)
(* operator of the values the step reads.                                  *)

\* discQ of DiscretizeAQTaylor(contA, m_contQ, dt, &discA, &discQ) with
\* contA = NumericalJacobianX(m_f, m_xHat, u)
PredictDiscQ(s, u, dt) ==
    DiscretizeAQTaylor(NumericalJacobianX(s.f, s.xHat, u), s.contQ, dt)

\* the loop over the sigma points: column i of m_sigmasF is
\* RungeKutta(m_f, column i of SigmaPoints(m_xHat, m_P), u, dt)
PredictSigmasF(s, u, dt) ==
    LET sigmas == SigmaPoints(s.xHat, s.P)
    IN  Tuple([c \in 1..NumSigmas(StatesOf(s)) |->
            RungeKutta(s.f, sigmas[c], u, dt)])

\* Predict that stores discQ in m_contQ
PredictAssignStoringQ(s, dt, discQ, sigmasF, ret) ==
    [s EXCEPT !.sigmasF = sigmasF,
              !.xHat = ret.mean,
              !.P = MAdd(ret.cov, discQ),
              !.contQ = discQ,
              !.discR = DiscretizeR(s.contR, dt)]

\* Predict without m_discR = DiscretizeR(m_contR, dt)
PredictAssignKeepingR(s, dt, discQ, sigmasF, ret) ==
    [s EXCEPT !.sigmasF = sigmasF,
              !.xHat = ret.mean,
              !.P = MAdd(ret.cov, discQ)]

\* Predict with m_P = discQ in place of m_P += discQ
PredictAssignReplacingP(s, dt, discQ, sigmasF, ret) ==
    [s EXCEPT !.sigmasF = sigmasF,
              !.xHat = ret.mean,
              !.P = discQ,
              !.discR = DiscretizeR(s.contR, dt)]

\* m_xHat = get<0>(ret); m_P = get<1>(ret); m_P += discQ;
\* m_discR = DiscretizeR(m_contR, dt), with m_sigmasF already assigned
PredictAssign(s, dt, discQ, sigmasF, ret) ==
    [s EXCEPT !.sigmasF = sigmasF,
              !.xHat = ret.mean,
              !.P = MAdd(ret.cov, discQ),
              !.discR = DiscretizeR(s.contR, dt)]

\* ret = UnscentedTransform(m_sigmasF, m_pts.Wm(), m_pts.Wc())
PredictTransform(s, dt, discQ, sigmasF) ==
    PredictAssign(s, dt, discQ, sigmasF,
                  UnscentedTransform(sigmasF, StatesOf(s)))

Predict(s, u, dt) ==
    PredictTransform(s, dt, PredictDiscQ(s, u, dt), PredictSigmasF(s, u, dt))

(* Correct<Rows>(u, y, h, R), in the order of its statements *)

\* sigmasH: column i is h(column i of SigmaPoints(m_xHat, m_P), u)
CorrectSigmasH(s, u, hn) ==
    LET sigmas == SigmaPoints(s.xHat, s.P)
    IN  Tuple([c \in 1..NumSigmas(StatesOf(s)) |-> h(hn, sigmas[c], u)])

\* Pxy from the sigma points of the current estimate in place of m_sigmasF
CrossCovarianceResampled(s, sigmasH, yHat) ==
    LET sigmas == SigmaPoints(s.xHat, s.P)
    IN  MSum(Tuple([c \in 1..NumSigmas(StatesOf(s)) |->
                   MScale(Wc(c - 1, StatesOf(s)),
                          Outer(VSub(sigmas[c], s.xHat), VSub(sigmasH[c], yHat)))]),
             StatesOf(s), Len(yHat))

\* Pxy: the sum over i of
\* Wc(i) * (m_sigmasF.col(i) - m_xHat) * (sigmasH.col(i) - yHat)^T
CrossCovariance(s, sigmasH, yHat) ==
    MSum(Tuple([c \in 1..NumSigmas(StatesOf(s)) |->
                   MScale(Wc(c - 1, StatesOf(s)),
                          Outer(VSub(s.sigmasF[c], s.xHat), VSub(sigmasH[c], yHat)))]),
         StatesOf(s), Len(yHat))

\* K = Py.transpose().ldlt().solve(Pxy.transpose()).transpose()
CorrectGain(yHat, Py, Pxy) ==
    [yHat |-> yHat, Py |-> Py, Pxy |-> Pxy,
     K |-> Transpose(LdltSolve(Transpose(Py), Transpose(Pxy)))]

\* Correct without Py += R
CorrectTransformWithoutR(s, R, sigmasH, ut) ==
    CorrectGain(ut.mean, ut.cov, CrossCovariance(s, sigmasH, ut.mean))

\* [yHat, Py] = UnscentedTransform(sigmasH, Wm, Wc); Py += R; then Pxy and K
CorrectTransform(s, R, sigmasH, ut) ==
    CorrectGain(ut.mean, MAdd(ut.cov, R), CrossCovariance(s, sigmasH, ut.mean))

CorrectMeasure(s, R, sigmasH) ==
    CorrectTransform(s, R, sigmasH, UnscentedTransform(sigmasH, StatesOf(s)))

\* the locals yHat, Py, Pxy and K of Correct<Rows>(u, y, h, R) when it returns
CorrectLocals(s, u, hn, R) == CorrectMeasure(s, R, CorrectSigmasH(s, u, hn))

\* Correct that clears m_sigmasF once it has read it
CorrectAssignClearingSigmas(s, y, loc) ==
    [s EXCEPT !.xHat = VAdd(s.xHat, MVec(loc.K, VSub(y, loc.yHat))),
              !.P = MSub(s.P, MMul(MMul(loc.K, loc.Py), Transpose(loc.K))),
              !.sigmasF = ZeroMat(NumSigmas(StatesOf(s)), StatesOf(s))]

\* Correct that subtracts only the lower triangle of K * Py * K.transpose()
CorrectAssignLower(s, y, loc) ==
    LET D == MMul(MMul(loc.K, loc.Py), Transpose(loc.K))
    IN  [s EXCEPT !.xHat = VAdd(s.xHat, MVec(loc.K, VSub(y, loc.yHat))),
                  !.P = Tuple([i \in 1..Len(D) |->
                            Tuple([j \in 1..Len(D) |->
                                IF j <= i THEN RSub(s.P[i][j], D[i][j])
                                ELSE s.P[i][j]])])]

\* m_xHat += K * (y - yHat); m_P -= K * Py * K.transpose();
CorrectAssign(s, y, loc) ==
    [s EXCEPT !.xHat = VAdd(s.xHat, MVec(loc.K, VSub(y, loc.yHat))),
              !.P = MSub(s.P, MMul(MMul(loc.K, loc.Py), Transpose(loc.K)))]

\* Correct<Rows>(u, y, h, R)
CorrectRows(s, u, y, hn, R) == CorrectAssign(s, y, CorrectLocals(s, u, hn, R))

\* Correct(u, y): Correct<Outputs>(u, y, m_h, m_discR)
Correct(s, u, y) == CorrectRows(s, u, y, s.h, s.discR)

-----------------------------------------------------------------------------
(* The calls a program makes on one filter object *)

\* the arguments callers pass: Predict(u, dt)
PredictArguments == {<<<<Zero>>, One>>, <<<<One>>, Half>>}

\* constructor arguments <<f, stateStdDevs, dt>> for a filter of n states;
\* each filter is built with h(x, u) = [x1] and measurementStdDevs = {1}
Filters(n) ==
    IF n = 1 THEN {<<"zero", <<Zero>>, One>>, <<"input", <<One>>, Half>>}
    ELSE {<<"input", <<Zero, Zero>>, One>>,
          <<"input", <<One, One>>, Half>>,
          <<"dblint", <<Half, Half>>, One>>}

\* SetXhat(xHat)
StateVectors(n) ==
    IF n = 1 THEN {<<Zero>>, <<One>>} ELSE {<<Zero, Zero>>, <<One, One>>}

\* SetP(P)
Covariances(n) ==
    IF n = 1 THEN {<<<<Rat(4, 1)>>>>}
    ELSE {<<<<One, Rat(-2, 1)>>, <<Rat(-2, 1), Rat(5, 1)>>>>}

\* Correct(u, y)
CorrectArguments == {<<<<Zero>>, <<Two>>>>}

\* Correct<Rows>(u, y, h, R), as <<u, y, h, R>>
CorrectRowsArguments(n) ==
    {<<<<Zero>>, <<Two>>, "first", <<<<One>>>>>>,
     <<<<Zero>>, <<Two>>, "square", <<<<One>>>>>>}
    \cup (IF n = 1 THEN {}
          ELSE {<<<<One>>, <<Two, Zero>>, "full", Identity(2)>>,
                <<<<One>>, <<Two, Zero>>, "full", <<<<One, One>>, <<Zero, One>>>>>>})

\* the filter object
self ==
    [f |-> m_f, h |-> m_h, xHat |-> m_xHat, P |-> m_P, contQ |-> m_contQ,
     contR |-> m_contR, discR |-> m_discR, sigmasF |-> m_sigmasF]

States == StatesOf(self)

\* the object's members hold the values of s
Holds(s) ==
    /\ m_f = s.f
    /\ m_h = s.h
    /\ m_xHat = s.xHat
    /\ m_P = s.P
    /\ m_contQ = s.contQ
    /\ m_contR = s.contR
    /\ m_discR = s.discR
    /\ m_sigmasF = s.sigmasF

\* the object's members take the values of s
Becomes(s) ==
    /\ m_f' = s.f
    /\ m_h' = s.h
    /\ m_xHat' = s.xHat
    /\ m_P' = s.P
    /\ m_contQ' = s.contQ
    /\ m_contR' = s.contR
    /\ m_discR' = s.discR
    /\ m_sigmasF' = s.sigmasF

\* every numerator and denominator of the vector v is within MaxMagnitude
VecWithin(v) ==
    \A i \in 1..Len(v) : Abs(v[i][1]) <= MaxMagnitude /\ v[i][2] <= MaxMagnitude

MatWithin(M) == \A i \in 1..Len(M) : VecWithin(M[i])

Representable ==
    /\ VecWithin(m_xHat)
    /\ MatWithin(m_P)
    /\ MatWithin(m_discR)
    /\ MatWithin(m_sigmasF)

CorrectOps == {"Correct", "CorrectRows"}

\* one more call is made, recorded as c
Called(c) ==
    /\ nCalls < MaxCalls
    /\ Representable
    /\ nCalls' = nCalls + 1
    /\ call' = c
    /\ prev' = call.op
    /\ predictDt' = IF c.op = "Predict" THEN c.dt ELSE predictDt
    /\ predicted' = (predicted \/ c.op = "Predict")
    /\ corrected' = (corrected \/ c.op \in CorrectOps)
    /\ UNCHANGED ctor

Init ==
    \E n \in {1, 2} :
        \E a \in Filters(n) :
            /\ Holds(Construct(a[1], "first", a[2], <<One>>, a[3]))
            /\ ctor = [f |-> a[1], h |-> "first", stateStdDevs |-> a[2],
                       measurementStdDevs |-> <<One>>, dt |-> a[3]]
            /\ call = [op |-> "UnscentedKalmanFilter"]
            /\ prev = "none"
            /\ nCalls = 0
            /\ predictDt = a[3]
            /\ predicted = FALSE
            /\ corrected = FALSE

CallSetP ==
    \E P \in Covariances(States) :
        /\ Called([op |-> "SetP", P |-> P])
        /\ Becomes(SetP(self, P))

CallSetXhat ==
    \E xHat \in StateVectors(States) :
        /\ Called([op |-> "SetXhat", xHat |-> xHat])
        /\ Becomes(SetXhat(self, xHat))

CallSetXhatAt ==
    \E i \in 0..(States - 1) :
        /\ Called([op |-> "SetXhatAt", i |-> i, value |-> One])
        /\ Becomes(SetXhatAt(self, i, One))

CallReset ==
    /\ Called([op |-> "Reset"])
    /\ Becomes(Reset(self))

\* Calls whose sigma points leave the rationals are outside the model.
CallPredict ==
    /\ SigmaPointsExact(m_P)
    /\ \E a \in PredictArguments :
        /\ Called([op |-> "Predict", u |-> a[1], dt |-> a[2]])
        /\ Becomes(Predict(self, a[1], a[2]))

CallCorrect ==
    /\ SigmaPointsExact(m_P)
    /\ \E a \in CorrectArguments :
        /\ Called([op |-> "Correct", u |-> a[1], y |-> a[2]])
        /\ Becomes(Correct(self, a[1], a[2]))

CallCorrectRows ==
    /\ SigmaPointsExact(m_P)
    /\ \E a \in CorrectRowsArguments(States) :
        /\ Called([op |-> "CorrectRows", u |-> a[1], y |-> a[2], h |-> a[3],
                   R |-> a[4]])
        /\ Becomes(CorrectRows(self, a[1], a[2], a[3], a[4]))

Next ==
    \/ CallSetP
    \/ CallSetXhat
    \/ CallSetXhatAt
    \/ CallReset
    \/ CallPredict
    \/ CallCorrect
    \/ CallCorrectRows

Spec == Init /\ [][Next]_vars

-----------------------------------------------------------------------------
(* Properties *)

ZeroState == ZeroVec(States)
ZeroCovariance == ZeroMat(States, States)
ZeroSigmas == ZeroMat(NumSigmas(States), States)

\* a filter constructed with the arguments this one was constructed with
Fresh ==
    Construct(ctor.f, ctor.h, ctor.stateStdDevs, ctor.measurementStdDevs,
              ctor.dt)

\* C1: Reset() leaves x-hat = 0 and P = 0, and a Predict(u, dt) called right
\* after a Reset() gives the x-hat, P, Sf and Rd that the same Predict(u, dt)
\* gives on a freshly constructed filter.
C1_ResetThenPredict ==
    [][/\ call'.op = "Reset" => m_xHat' = ZeroState /\ m_P' = ZeroCovariance
       /\ (call.op = "Reset" /\ call'.op = "Predict") =>
              /\ m_xHat' = Predict(Fresh, call'.u, call'.dt).xHat
              /\ m_P' = Predict(Fresh, call'.u, call'.dt).P
              /\ m_sigmasF' = Predict(Fresh, call'.u, call'.dt).sigmasF
              /\ m_discR' = Predict(Fresh, call'.u, call'.dt).discR]_vars

\* a Predict right after a Reset that followed an earlier call
C1_Witness ==
    /\ call.op = "Predict"
    /\ prev = "Reset"
    /\ nCalls >= 3
    /\ m_P # ZeroCovariance

\* C2: every Correct call, of either form, leaves Sf, Qc, Rc and Rd as they
\* were.
C2_CorrectFrame ==
    [][call'.op \in CorrectOps =>
           UNCHANGED <<m_sigmasF, m_contQ, m_contR, m_discR>>]_vars

\* a second Correct in a row after a Predict, with Sf not zero
C2_Witness ==
    /\ call.op \in CorrectOps
    /\ prev \in CorrectOps
    /\ predicted
    /\ m_sigmasF # ZeroSigmas

\* C3 as amended: every step at which Sf changes is a Predict or a Reset.
C3_SigmasWrittenByPredictOrReset ==
    [][m_sigmasF' # m_sigmasF => call'.op \in {"Predict", "Reset"}]_vars

\* C3 as stated: every step at which Sf changes is a Predict.
C3_SigmasWrittenByPredictOnly ==
    [][m_sigmasF' # m_sigmasF => call'.op = "Predict"]_vars

\* a Reset right after Predict(u = 1, dt = 1/2) with f(x, u) = u
C3_Witness ==
    /\ call.op = "Reset"
    /\ prev = "Predict"
    /\ m_f = "input"
    /\ predictDt = Half
    /\ m_sigmasF = ZeroSigmas

\* C4: Qc and Rc are always the matrices the constructor built from the
\* standard deviations, and Predict leaves f, h, Qc and Rc as they were.
C4_NoiseFixed ==
    /\ [](/\ m_contQ = MakeCovMatrix(ctor.stateStdDevs)
          /\ m_contR = MakeCovMatrix(ctor.measurementStdDevs))
    /\ [][call'.op = "Predict" =>
              UNCHANGED <<m_f, m_h, m_contQ, m_contR>>]_vars

\* a Predict with dt = 1/2 on a filter with process noise
C4_Witness ==
    /\ call.op = "Predict"
    /\ call.dt = Half
    /\ m_contQ # ZeroCovariance

\* C5: Rd is always DiscretizeR(Rc, d), d the dt of the last Predict or else
\* of the constructor; only Predict changes Rd; and Correct(u, y) is
\* Correct<Outputs>(u, y, h, R) with the constructor's h and that Rd.
C5_DiscRFollowsPredict ==
    /\ [](m_discR = DiscretizeR(m_contR, predictDt))
    /\ [][/\ m_discR' # m_discR => call'.op = "Predict"
          /\ call'.op = "Correct" =>
                 /\ m_xHat' = CorrectRows(self, call'.u, call'.y, ctor.h,
                                          DiscretizeR(m_contR, predictDt)).xHat
                 /\ m_P' = CorrectRows(self, call'.u, call'.y, ctor.h,
                                       DiscretizeR(m_contR, predictDt)).P]_vars

\* a Correct(u, y) that moved the estimate, right after a Predict whose dt
\* is not the constructor's
C5_Witness ==
    /\ call.op = "Correct"
    /\ prev = "Predict"
    /\ predictDt # ctor.dt
    /\ m_P # ZeroCovariance
    /\ m_xHat # ZeroState

Scalar == States = 1 /\ m_f = "zero" /\ ctor.stateStdDevs = <<Zero>>

ScalarPredict == [op |-> "Predict", u |-> <<Zero>>, dt |-> One]

ScalarCorrect ==
    [op |-> "CorrectRows", u |-> <<Zero>>, y |-> <<Two>>, h |-> "first",
     R |-> <<<<One>>>>]

\* C6: in the scalar scenario (f = 0, h(x) = x, no process noise, x-hat = 0,
\* P = 4) Predict(0, 1) leaves x-hat = 0 and P = 4, and the following
\* Correct(0, 2, h, R = 1) has Py = 5, Pxy = 4, K = 4/5 and leaves
\* x-hat = 8/5 and P = 4/5.
C6_ScalarScenario ==
    [][/\ (/\ Scalar
           /\ m_xHat = <<Zero>>
           /\ m_P = <<<<Rat(4, 1)>>>>
           /\ call' = ScalarPredict) =>
              m_xHat' = <<Zero>> /\ m_P' = <<<<Rat(4, 1)>>>>
       /\ (/\ Scalar
           /\ call = ScalarPredict
           /\ m_xHat = <<Zero>>
           /\ m_P = <<<<Rat(4, 1)>>>>
           /\ call' = ScalarCorrect) =>
              /\ CorrectLocals(self, <<Zero>>, "first", <<<<One>>>>) =
                     [yHat |-> <<Zero>>, Py |-> <<<<Rat(5, 1)>>>>,
                      Pxy |-> <<<<Rat(4, 1)>>>>, K |-> <<<<Rat(4, 5)>>>>]
              /\ m_xHat' = <<Rat(8, 5)>>
              /\ m_P' = <<<<Rat(4, 5)>>>>]_vars

\* the scalar scenario after its Correct
C6_Witness ==
    /\ Scalar
    /\ prev = "Predict"
    /\ call = ScalarCorrect
    /\ m_sigmasF = <<<<Zero>>, <<Two>>, <<Rat(-2, 1)>>>>
    /\ m_xHat = <<Rat(8, 5)>>

PredictOrCorrect == {"Predict"} \cup CorrectOps

\* C7 as amended: a Predict or a Correct called with P symmetric leaves P
\* symmetric, provided the R a caller passes to Correct<Rows> is symmetric.
C7_SymmetricGivenSymmetricR ==
    [][(/\ IsSymmetric(m_P)
        /\ call'.op \in PredictOrCorrect
        /\ call'.op = "CorrectRows" => IsSymmetric(call'.R)) =>
           IsSymmetric(m_P')]_vars

\* C7 as stated: a Predict or a Correct called with P symmetric leaves P
\* symmetric, whatever R the caller passes.
C7_SymmetricForEveryR ==
    [][(IsSymmetric(m_P) /\ call'.op \in PredictOrCorrect) =>
           IsSymmetric(m_P')]_vars

\* a two-row Correct with a symmetric R after a Predict, P correlated
C7_Witness ==
    /\ call.op = "CorrectRows"
    /\ call.h = "full"
    /\ IsSymmetric(call.R)
    /\ predicted
    /\ m_sigmasF # ZeroSigmas
    /\ m_P[1][2] # Zero
    /\ IsSymmetric(m_P)

PositiveNoise ==
    \A i \in 1..Len(ctor.stateStdDevs) : RLess(Zero, ctor.stateStdDevs[i])

\* C8 as amended: with positive process noise and no Correct so far, a
\* Predict leaves trace(P) at least what it was when f does not depend on
\* the state and P is zero or symmetric with a successful Cholesky
\* factorisation (positive definite).
C8_TraceGrowsForStateIndependentF ==
    [][(/\ call'.op = "Predict"
        /\ ~corrected
        /\ PositiveNoise
        /\ IsStateIndependent(m_f)
        /\ IsSymmetric(m_P)
        /\ (m_P = ZeroCovariance \/ LltSuccess(Spread(m_P), 1))) =>
           RLeq(Trace(m_P), Trace(m_P'))]_vars

\* C8 as stated: with positive process noise and no Correct so far, every
\* Predict leaves trace(P) at least what it was.
C8_TraceGrowsForEveryF ==
    [][(call'.op = "Predict" /\ ~corrected /\ PositiveNoise) =>
           RLeq(Trace(m_P), Trace(m_P'))]_vars

\* a Predict on the P that SetP installed, two states, f(x, u) = u
C8_Witness ==
    /\ call.op = "Predict"
    /\ prev = "SetP"
    /\ ~corrected
    /\ PositiveNoise
    /\ IsStateIndependent(m_f)
    /\ States = 2
    /\ RLess(Rat(6, 1), Trace(m_P))

\* the h and the R of the Correct call c
CorrectH(c) == IF c.op = "Correct" THEN m_h ELSE c.h
CorrectR(c) == IF c.op = "Correct" THEN m_discR ELSE c.R

\* the Correct call c computes Pxy = 0 and K = 0 and leaves x-hat and P
CorrectIsIdle(c) ==
    /\ CorrectLocals(self, c.u, CorrectH(c), CorrectR(c)).Pxy =
           ZeroMat(States, RowsOf(CorrectH(c), States))
    /\ CorrectLocals(self, c.u, CorrectH(c), CorrectR(c)).K =
           ZeroMat(States, RowsOf(CorrectH(c), States))
    /\ m_xHat' = m_xHat
    /\ m_P' = m_P

\* C9 as amended: a Correct called before any Predict computes Pxy = 0 and
\* K = 0 and leaves x-hat and P as they were, when h is affine or x-hat = 0.
C9_IdleBeforePredictForAffineH ==
    [][(/\ ~predicted
        /\ call'.op \in CorrectOps
        /\ (IsAffine(CorrectH(call')) \/ m_xHat = ZeroState)) =>
           CorrectIsIdle(call')]_vars

\* C9 as stated: a Correct called before any Predict computes Pxy = 0 and
\* K = 0 and leaves x-hat and P as they were, for every h.
C9_IdleBeforePredictForEveryH ==
    [][(~predicted /\ call'.op \in CorrectOps) => CorrectIsIdle(call')]_vars

\* a two-row Correct before any Predict, after SetXhat and SetP
C9_Witness ==
    /\ ~predicted
    /\ call.op = "CorrectRows"
    /\ call.h = "full"
    /\ m_xHat # ZeroState
    /\ m_P # ZeroCovariance

\* C10: Reset() leaves f, h, Qc, Rc and Rd as they were, so the Correct(u, y)
\* right after a Reset is Correct<Outputs>(u, y, h, R) with R the Rd of the
\* last Predict.
C10_ResetFrame ==
    [][/\ call'.op = "Reset" =>
              UNCHANGED <<m_f, m_h, m_contQ, m_contR, m_discR>>
       /\ (call.op = "Reset" /\ call'.op = "Correct") =>
              /\ CorrectLocals(self, call'.u, m_h, m_discR).Py =
                     DiscretizeR(m_contR, predictDt)
              /\ m_xHat' = CorrectRows(self, call'.u, call'.y, m_h,
                                       DiscretizeR(m_contR, predictDt)).xHat
              /\ m_P' = CorrectRows(self, call'.u, call'.y, m_h,
                                    DiscretizeR(m_contR, predictDt)).P]_vars

\* a Correct(u, y) right after a Reset that followed a Predict whose dt is
\* not the constructor's
C10_Witness ==
    /\ call.op = "Correct"
    /\ prev = "Reset"
    /\ predicted
    /\ predictDt # ctor.dt

====
